---- MODULE Spec2Model ----
(***************************************************************************)
(* Model of vagrantx src/main.rs: the launcher that loads a JSON config,   *)
(* assembles a Virtualization.framework machine configuration, validates   *)
(* it, and dispatches an asynchronous VM start on a serial queue while the *)
(* main thread sleeps forever.                                             *)
(*                                                                         *)
(* The main thread is modelled statement by statement (pc); the serial     *)
(* queue runs the dispatched start block (qpc); the framework fires the    *)
(* completion callback (cb).  The file system, the terminal driver, the    *)
(* capability check and the validator are the environment: their answers   *)
(* are drawn from small sets.                                              *)
(***************************************************************************)
EXTENDS Integers, Sequences, FiniteSets, TLC

\* ------------------------------------------------------------------ bounds
MaxBootDisks == 2
MaxAdditionalDisks == 1
MaxSleeps == 2

\* ------------------------------------------------------------ environment
\* Paths a configuration may name.  "link0" is a symlink to disk0.img,
\* "missing" does not exist, "corrupt.img" exists but is no usable image,
\* "bad_utf8" exists under a name that is not valid UTF-8.
DiskPaths == {"disk0.img", "disk1.img", "link0", "missing", "corrupt.img", "bad_utf8"}
KernelPaths == {"vmlinuz", "missing", "bad_utf8"}
InitrdPaths == {"initrd.img", "missing", "bad_utf8"}

NoPath == "<none>"

\* std::fs::canonicalize: Ok(absolute path with symlinks resolved) or Err.
canonicalize(p) ==
    CASE p = "disk0.img"   -> [ok |-> TRUE,  path |-> "/vm/disk0.img"]
      [] p = "disk1.img"   -> [ok |-> TRUE,  path |-> "/vm/disk1.img"]
      [] p = "link0"       -> [ok |-> TRUE,  path |-> "/vm/disk0.img"]
      [] p = "corrupt.img" -> [ok |-> TRUE,  path |-> "/vm/corrupt.img"]
      [] p = "bad_utf8"    -> [ok |-> TRUE,  path |-> "/vm/<FF>"]
      [] p = "vmlinuz"     -> [ok |-> TRUE,  path |-> "/vm/vmlinuz"]
      [] p = "initrd.img"  -> [ok |-> TRUE,  path |-> "/vm/initrd.img"]
      [] OTHER             -> [ok |-> FALSE, path |-> NoPath]

\* OsString::into_string: Ok only for valid UTF-8.
into_string(os) == [ok |-> os # "/vm/<FF>", str |-> os]

\* canonicalize(p).unwrap().into_os_string().into_string().unwrap():
\* the string, or a panic at either unwrap.
ResolveOrPanic(p) ==
    LET c == canonicalize(p) IN
    IF ~c.ok THEN [panic |-> TRUE, str |-> NoPath]
    ELSE LET s == into_string(c.path) IN
         IF ~s.ok THEN [panic |-> TRUE, str |-> NoPath]
         ELSE [panic |-> FALSE, str |-> s.str]

\* VZDiskImageStorageDeviceAttachmentBuilder::build: Err(NSError) for an
\* image the framework cannot attach.
AttachmentBuilds(abs) == abs # "/vm/corrupt.img"

\* --------------------------------------------------------------- config
\* main.rs:43-49.  The memory size is 2147483648 bytes, kept here in MiB so
\* that it stays within the 32-bit integers of TLC.
default_cpu == 2
default_mem_size == 2048

RECURSIVE SeqsUpTo(_, _)
SeqsUpTo(S, n) ==
    IF n = 0 THEN {<<>>}
    ELSE LET shorter == SeqsUpTo(S, n - 1) IN
         shorter \cup {Append(s, x) : s \in {t \in shorter : Len(t) = n - 1}, x \in S}

\* The Config values serde can produce from a config file.
Configs ==
    [kernel : KernelPaths, initrd : InitrdPaths, command_line : {""},
     disks : SeqsUpTo(DiskPaths, MaxBootDisks),
     additional_disks : SeqsUpTo(DiskPaths, MaxAdditionalDisks),
     cpu_count : {default_cpu}, memory_size : {default_mem_size}]

NoConfig == [kernel |-> NoPath]

\* Mutant of EffectiveDisks: the two lists chained the other way round.
EffectiveDisks_Swapped(c) == c.additional_disks \o c.disks

\* main.rs:186-192: boot.disks chained with additional_disks.
EffectiveDisks(c) == c.disks \o c.additional_disks

\* ---------------------------------------------------- build_block_devices
\* Mutant of BlockLoop: a path that cannot be resolved is skipped instead of
\* unwrapped.
RECURSIVE BlockLoop_SkipUnresolved(_, _, _)
BlockLoop_SkipUnresolved(disks, i, acc) ==
    IF i > Len(disks)
    THEN [tag |-> "Ok", value |-> acc.devices, err |-> NoPath, at |-> 0,
          canonicalized |-> acc.canonicalized, attached |-> acc.attached,
          constructed |-> Len(acc.devices)]
    ELSE LET r == ResolveOrPanic(disks[i])
             canon == Append(acc.canonicalized, i)
         IN  IF r.panic
             THEN BlockLoop_SkipUnresolved(disks, i + 1,
                     [acc EXCEPT !.canonicalized = canon])
             ELSE IF ~AttachmentBuilds(r.str)
             THEN [tag |-> "Err", value |-> <<>>, err |-> r.str, at |-> i,
                   canonicalized |-> canon,
                   attached |-> Append(acc.attached, i),
                   constructed |-> Len(acc.devices)]
             ELSE BlockLoop_SkipUnresolved(disks, i + 1,
                     [devices |-> Append(acc.devices,
                                    [attachment |-> r.str, read_only |-> FALSE]),
                      canonicalized |-> canon,
                      attached |-> Append(acc.attached, i)])

\* The loop of build_block_devices from index i on.  acc carries the devices
\* pushed so far and the log of what was canonicalized and attached.
\* tag: "Ok" (value = the device list), "Err" (err = the NSError; the partial
\* vector is dropped) or "panic" (an unwrap failed; nothing is returned).
RECURSIVE BlockLoop(_, _, _)
BlockLoop(disks, i, acc) ==
    IF i > Len(disks)
    THEN [tag |-> "Ok", value |-> acc.devices, err |-> NoPath, at |-> 0,
          canonicalized |-> acc.canonicalized, attached |-> acc.attached,
          constructed |-> Len(acc.devices)]
    ELSE LET r == ResolveOrPanic(disks[i])
             canon == Append(acc.canonicalized, i)
         IN  IF r.panic
             THEN [tag |-> "panic", value |-> <<>>, err |-> NoPath, at |-> i,
                   canonicalized |-> canon, attached |-> acc.attached,
                   constructed |-> Len(acc.devices)]
             ELSE IF ~AttachmentBuilds(r.str)
             THEN [tag |-> "Err", value |-> <<>>, err |-> r.str, at |-> i,
                   canonicalized |-> canon,
                   attached |-> Append(acc.attached, i),
                   constructed |-> Len(acc.devices)]
             ELSE BlockLoop(disks, i + 1,
                     [devices |-> Append(acc.devices,
                                    [attachment |-> r.str, read_only |-> FALSE]),
                      canonicalized |-> canon,
                      attached |-> Append(acc.attached, i)])

\* Mutant of build_block_devices: a failed attachment ends the loop (break)
\* and the devices built so far are returned as Ok.
build_block_devices_break(disks) ==
    LET empty == [devices |-> <<>>, canonicalized |-> <<>>, attached |-> <<>>]
        r == BlockLoop(disks, 1, empty)
    IN  IF r.tag = "Err"
        THEN [r EXCEPT !.tag = "Ok",
                       !.value = BlockLoop(SubSeq(disks, 1, r.at - 1), 1, empty).value]
        ELSE r

build_block_devices(disks) ==
    BlockLoop(disks, 1, [devices |-> <<>>, canonicalized |-> <<>>, attached |-> <<>>])

NoBlockResult == [tag |-> "none"]

\* ------------------------------------------------------------- terminal
\* The termios flags the program touches, plus one it does not (ISIG).
Termios == [icrnl : BOOLEAN, icanon : BOOLEAN, echo : BOOLEAN, isig : BOOLEAN]
CookedTermios == [icrnl |-> TRUE, icanon |-> TRUE, echo |-> TRUE, isig |-> TRUE]

\* main.rs:90-91: clear ICRNL, ICANON and ECHO.
ClearFlags(a) == [a EXCEPT !.icrnl = FALSE, !.icanon = FALSE, !.echo = FALSE]

\* ------------------------------------------------------------------ state
VARIABLES
    pc,            \* main thread position
    exitKind,      \* "none" | "return" | "panic" | "usage"
    exitAt,        \* the pc at which the process ended
    out,           \* what the process printed, in order
    hostSupported, \* VZVirtualMachine::supported() on this host
    config,        \* the loaded Config
    made,          \* device descriptors constructed so far
    bootLoader,    \* the boot loader descriptor, or NoBootLoader
    blockResult,   \* what build_block_devices did
    term,          \* the terminal's attributes
    termOrig,      \* the terminal's attributes at process start
    tcgetCalls, tcgetFailed, tcsetCalls, termWrites,
    conf,          \* the assembled VZVirtualMachineConfiguration
    validateCalls, validated, \* validator calls; the conf it accepted
    queueCreated, vm, dispatched,
    qpc,           \* serial queue: position of the start block
    lockHolder, lockAcquires, startLog, handleAccess,
    cb,            \* completion callback: "none" | "pending" | "ok" | "err"
    sleeps

vars == <<pc, exitKind, exitAt, out, hostSupported, config, made, bootLoader,
          blockResult, term, termOrig, tcgetCalls, tcgetFailed, tcsetCalls,
          termWrites, conf, validateCalls, validated, queueCreated, vm,
          dispatched, qpc, lockHolder, lockAcquires, startLog, handleAccess,
          cb, sleeps>>

NoBootLoader == [kernel |-> NoPath]
NoConf == [built |-> FALSE]
NoVm == [made |-> FALSE]

mainVars == <<pc, exitKind, exitAt, out>>
envVars == <<hostSupported, termOrig>>
deviceVars == <<made, bootLoader, blockResult>>
termVars == <<term, tcgetCalls, tcgetFailed, tcsetCalls, termWrites>>
confVars == <<conf, validateCalls, validated>>
vmVars == <<queueCreated, vm, dispatched>>
queueVars == <<qpc, lockHolder, lockAcquires, startLog, handleAccess, cb>>

Init ==
    /\ pc = "from_args"
    /\ exitKind = "none"
    /\ exitAt = "none"
    /\ out = <<>>
    /\ hostSupported \in BOOLEAN
    /\ config = NoConfig
    /\ made = {}
    /\ bootLoader = NoBootLoader
    /\ blockResult = NoBlockResult
    /\ termOrig \in {CookedTermios}
    /\ term = termOrig
    /\ tcgetCalls = 0
    /\ tcgetFailed = FALSE
    /\ tcsetCalls = 0
    /\ termWrites = 0
    /\ conf = NoConf
    /\ validateCalls = 0
    /\ validated = NoConf
    /\ queueCreated = FALSE
    /\ vm = NoVm
    /\ dispatched = FALSE
    /\ qpc = "idle"
    /\ lockHolder = "none"
    /\ lockAcquires = 0
    /\ startLog = <<>>
    /\ handleAccess = {}
    /\ cb = "none"
    /\ sleeps = 0

\* The process ends at the current statement.
Exit(kind, msg) ==
    /\ pc' = "exited"
    /\ exitKind' = kind
    /\ exitAt' = pc
    /\ out' = Append(out, msg)

Goto(l) ==
    /\ pc' = l
    /\ UNCHANGED <<exitKind, exitAt, out>>

\* ------------------------------------------------------------ main thread
\* main.rs:163  Opt::from_args(): structopt prints usage and exits when the
\* positional argument is missing.
FromArgs ==
    /\ pc = "from_args"
    /\ \E argsOk \in BOOLEAN :
          IF argsOk THEN Goto("load_config")
          ELSE Exit("usage", <<"usage", NoPath>>)
    /\ UNCHANGED <<envVars, config, deviceVars, termVars, confVars, vmVars,
                   queueVars, sleeps>>

\* main.rs:165  load_config(..).expect("could not read config"): the file is
\* opened, read and parsed; any failure panics.
LoadConfig ==
    /\ pc = "load_config"
    /\ \/ /\ Exit("panic", <<"panic", "could not read config">>)
          /\ UNCHANGED config
       \/ \E c \in Configs :
             /\ config' = c
             /\ Goto("supported")
    /\ UNCHANGED <<envVars, deviceVars, termVars, confVars, vmVars, queueVars,
                   sleeps>>

\* Mutant of CheckSupported: the capability answer is not acted on.
CheckSupported_Ignored ==
    /\ pc = "supported"
    /\ Goto("entropy")
    /\ UNCHANGED <<envVars, config, deviceVars, termVars, confVars, vmVars,
                   queueVars, sleeps>>

\* main.rs:167-170
CheckSupported ==
    /\ pc = "supported"
    /\ IF ~hostSupported
       THEN Exit("return", <<"println", "not supported">>)
       ELSE Goto("entropy")
    /\ UNCHANGED <<envVars, config, deviceVars, termVars, confVars, vmVars,
                   queueVars, sleeps>>

\* main.rs:172
NewEntropy ==
    /\ pc = "entropy"
    /\ made' = made \cup {"entropy"}
    /\ Goto("memory_balloon")
    /\ UNCHANGED <<envVars, config, bootLoader, blockResult, termVars,
                   confVars, vmVars, queueVars, sleeps>>

\* main.rs:173
NewMemoryBalloon ==
    /\ pc = "memory_balloon"
    /\ made' = made \cup {"memory_balloon"}
    /\ Goto("network")
    /\ UNCHANGED <<envVars, config, bootLoader, blockResult, termVars,
                   confVars, vmVars, queueVars, sleeps>>

\* main.rs:175-177
NewNetworkDevice ==
    /\ pc = "network"
    /\ made' = made \cup {"network"}
    /\ Goto("boot_loader")
    /\ UNCHANGED <<envVars, config, bootLoader, blockResult, termVars,
                   confVars, vmVars, queueVars, sleeps>>

\* Mutant of BuildBootLoader: an initrd path that cannot be resolved is
\* passed on unresolved instead of unwrapped.
BuildBootLoader_InitrdUnchecked ==
    /\ pc = "boot_loader"
    /\ LET k == ResolveOrPanic(config.kernel)
           i == ResolveOrPanic(config.initrd)
       IN  IF k.panic
           THEN /\ Exit("panic", <<"panic", config.kernel>>)
                /\ UNCHANGED bootLoader
           ELSE /\ bootLoader' = [kernel |-> k.str,
                                  initrd |-> IF i.panic THEN config.initrd ELSE i.str,
                                  command_line |-> config.command_line]
                /\ Goto("block_devices")
    /\ UNCHANGED <<envVars, config, made, blockResult, termVars, confVars,
                   vmVars, queueVars, sleeps>>

\* main.rs:179-183 with build_boot_loader (109-131): the kernel path is
\* resolved first, then the initrd path; either unwrap may panic.
BuildBootLoader ==
    /\ pc = "boot_loader"
    /\ LET k == ResolveOrPanic(config.kernel)
           i == ResolveOrPanic(config.initrd)
       IN  IF k.panic \/ i.panic
           THEN /\ Exit("panic", <<"panic", IF k.panic THEN config.kernel
                                                        ELSE config.initrd>>)
                /\ UNCHANGED bootLoader
           ELSE /\ bootLoader' = [kernel |-> k.str, initrd |-> i.str,
                                  command_line |-> config.command_line]
                /\ Goto("block_devices")
    /\ UNCHANGED <<envVars, config, made, blockResult, termVars, confVars,
                   vmVars, queueVars, sleeps>>

\* main.rs:185-199: build_block_devices over the chained disk list; Err is
\* dumped and main returns; a panic inside the builder ends the process.
BuildBlockDevices ==
    /\ pc = "block_devices"
    /\ LET r == build_block_devices(EffectiveDisks(config)) IN
       /\ blockResult' = r
       /\ made' = IF r.constructed > 0 THEN made \cup {"storage"} ELSE made
       /\ CASE r.tag = "panic" ->
                 Exit("panic", <<"panic", EffectiveDisks(config)[r.at]>>)
            [] r.tag = "Err" -> Exit("return", <<"dump", r.err>>)
            [] OTHER -> Goto("console")
    /\ UNCHANGED <<envVars, config, bootLoader, termVars, confVars, vmVars,
                   queueVars, sleeps>>

\* main.rs:208 with build_console_configuration (79-107).  The result of
\* tcgetattr is ignored: when it fails, `attributes` is read uninitialized,
\* so the value modified and handed to tcsetattr is arbitrary.  The result
\* of tcsetattr is ignored too.  The console device is built regardless.
BuildConsoleConfiguration ==
    /\ pc = "console"
    /\ \E getOk \in BOOLEAN, setOk \in BOOLEAN, uninit \in Termios :
          LET attributes == IF getOk THEN term ELSE uninit
              init_attributes == ClearFlags(attributes)
          IN  /\ tcgetCalls' = tcgetCalls + 1
              /\ tcgetFailed' = ~getOk
              /\ tcsetCalls' = tcsetCalls + 1
              /\ term' = IF setOk THEN init_attributes ELSE term
              /\ termWrites' = IF setOk THEN termWrites + 1 ELSE termWrites
    /\ made' = made \cup {"console"}
    /\ Goto("build_conf")
    /\ UNCHANGED <<envVars, config, bootLoader, blockResult, confVars, vmVars,
                   queueVars, sleeps>>

\* main.rs:201-210: the configuration builder; purely compositional.
BuildConf ==
    /\ pc = "build_conf"
    /\ conf' = [built |-> TRUE, boot_loader |-> bootLoader,
                cpu_count |-> config.cpu_count,
                memory_size |-> config.memory_size,
                entropy_devices |-> <<"entropy">>,
                memory_balloon_devices |-> <<"memory_balloon">>,
                network_devices |-> <<"network">>,
                serial_ports |-> <<"console">>,
                storage_devices |-> blockResult.value]
    /\ Goto("validate")
    /\ UNCHANGED <<envVars, config, deviceVars, termVars, validateCalls,
                   validated, vmVars, queueVars, sleeps>>

\* Mutant of ValidateWithError: the validator's error is dumped but main
\* goes on to create the VM.
ValidateWithError_NoGate ==
    /\ pc = "validate"
    /\ validateCalls' = validateCalls + 1
    /\ \E ok \in BOOLEAN :
          /\ validated' = IF ok THEN conf ELSE validated
          /\ pc' = "queue_create"
          /\ out' = IF ok THEN out ELSE Append(out, <<"dump", "validation">>)
          /\ UNCHANGED <<exitKind, exitAt>>
    /\ UNCHANGED <<envVars, config, deviceVars, termVars, conf, vmVars,
                   queueVars, sleeps>>

\* main.rs:212, 241-244: conf.validate_with_error(); Err is dumped and main
\* returns.
ValidateWithError ==
    /\ pc = "validate"
    /\ validateCalls' = validateCalls + 1
    /\ \E ok \in BOOLEAN :
          IF ok
          THEN /\ validated' = conf
               /\ Goto("queue_create")
          ELSE /\ UNCHANGED validated
               /\ Exit("return", <<"dump", "validation">>)
    /\ UNCHANGED <<envVars, config, deviceVars, termVars, conf, vmVars,
                   queueVars, sleeps>>

\* main.rs:214-215
DispatchQueueCreate ==
    /\ pc = "queue_create"
    /\ queueCreated' = TRUE
    /\ Goto("vm_new")
    /\ UNCHANGED <<envVars, config, deviceVars, termVars, confVars, vm,
                   dispatched, queueVars, sleeps>>

\* main.rs:216
NewVirtualMachine ==
    /\ pc = "vm_new"
    /\ vm' = [made |-> TRUE, conf |-> conf, queue |-> "second"]
    /\ Goto("dispatch")
    /\ UNCHANGED <<envVars, config, deviceVars, termVars, confVars,
                   queueCreated, dispatched, queueVars, sleeps>>

\* main.rs:217-234: the start block (which owns the only Arc to the handle)
\* is handed to the serial queue.
DispatchAsync ==
    /\ pc = "dispatch"
    /\ dispatched' = TRUE
    /\ qpc' = "queued"
    /\ Goto("sleep")
    /\ UNCHANGED <<envVars, config, deviceVars, termVars, confVars,
                   queueCreated, vm, lockHolder, lockAcquires, startLog,
                   handleAccess, cb, sleeps>>

\* Mutant of Sleep: a single sleep instead of a loop, after which main returns.
Sleep_Once ==
    /\ pc = "sleep"
    /\ sleeps < MaxSleeps
    /\ sleeps' = sleeps + 1
    /\ Exit("return", <<"return", "main">>)
    /\ UNCHANGED <<envVars, config, deviceVars, termVars, confVars, vmVars,
                   queueVars>>

\* main.rs:235-239: loop { sleep(1000) }
Sleep ==
    /\ pc = "sleep"
    /\ sleeps < MaxSleeps
    /\ sleeps' = sleeps + 1
    /\ UNCHANGED <<mainVars, envVars, config, deviceVars, termVars, confVars,
                   vmVars, queueVars>>

\* ----------------------------------------------------------- serial queue
\* main.rs:226-227: vm.write().unwrap() inside the dispatched block.
StartBlockLock ==
    /\ pc # "exited"
    /\ qpc = "queued"
    /\ lockHolder = "none"
    /\ lockHolder' = "start_block"
    /\ lockAcquires' = lockAcquires + 1
    /\ handleAccess' = handleAccess \cup {"start_block"}
    /\ qpc' = "locked"
    /\ UNCHANGED <<mainVars, envVars, config, deviceVars, termVars, confVars,
                   vmVars, startLog, cb, sleeps>>

\* main.rs:228: start_with_completion_handler on the write guard.
StartWithCompletionHandler ==
    /\ pc # "exited"
    /\ qpc = "locked"
    /\ startLog' = Append(startLog, lockHolder)
    /\ cb' = "pending"
    /\ qpc' = "started"
    /\ UNCHANGED <<mainVars, envVars, config, deviceVars, termVars, confVars,
                   vmVars, lockHolder, lockAcquires, handleAccess, sleeps>>

\* main.rs:228: the temporary write guard is dropped at the end of the
\* statement.
StartBlockUnlock ==
    /\ pc # "exited"
    /\ qpc = "started"
    /\ lockHolder' = "none"
    /\ qpc' = "done"
    /\ UNCHANGED <<mainVars, envVars, config, deviceVars, termVars, confVars,
                   vmVars, lockAcquires, startLog, handleAccess, cb, sleeps>>

\* Mutant of CompletionHandler: the handler captures the handle and takes the
\* lock to inspect the machine.
CompletionHandler_TouchesHandle ==
    /\ pc # "exited"
    /\ cb = "pending"
    /\ lockHolder = "none"
    /\ lockAcquires' = lockAcquires + 1
    /\ handleAccess' = handleAccess \cup {"completion"}
    /\ \E err \in {"NIL", "error"} :
          /\ cb' = IF err = "NIL" THEN "ok" ELSE "err"
          /\ out' = IF err = "NIL" THEN out ELSE Append(out, <<"dump", "start">>)
    /\ UNCHANGED <<pc, exitKind, exitAt, envVars, config, deviceVars, termVars,
                   confVars, vmVars, qpc, lockHolder, startLog, sleeps>>

\* main.rs:218-223: the completion handler; a non-NIL error is dumped.  The
\* handler does not capture the handle.
CompletionHandler ==
    /\ pc # "exited"
    /\ cb = "pending"
    /\ \E err \in {"NIL", "error"} :
          /\ cb' = IF err = "NIL" THEN "ok" ELSE "err"
          /\ out' = IF err = "NIL" THEN out ELSE Append(out, <<"dump", "start">>)
    /\ UNCHANGED <<pc, exitKind, exitAt, envVars, config, deviceVars, termVars,
                   confVars, vmVars, qpc, lockHolder, lockAcquires, startLog,
                   handleAccess, sleeps>>

Next ==
    \/ FromArgs
    \/ LoadConfig
    \/ CheckSupported
    \/ NewEntropy
    \/ NewMemoryBalloon
    \/ NewNetworkDevice
    \/ BuildBootLoader
    \/ BuildBlockDevices
    \/ BuildConsoleConfiguration
    \/ BuildConf
    \/ ValidateWithError
    \/ DispatchQueueCreate
    \/ NewVirtualMachine
    \/ DispatchAsync
    \/ Sleep
    \/ StartBlockLock
    \/ StartWithCompletionHandler
    \/ StartBlockUnlock
    \/ CompletionHandler

Spec == Init /\ [][Next]_vars

\* ================================================================ claims
\* Helpers of the claims below, stated over the loaded configuration alone.
Loaded == config # NoConfig
BuilderRan == blockResult.tag # "none"
NumDisks == Len(config.disks) + Len(config.additional_disks)
InputPath(i) ==
    IF i <= Len(config.disks) THEN config.disks[i]
    ELSE config.additional_disks[i - Len(config.disks)]
Resolves(p) == canonicalize(p).ok
AttachFails(p) ==
    /\ ~ResolveOrPanic(p).panic
    /\ ~AttachmentBuilds(ResolveOrPanic(p).str)
Usable(p) ==
    /\ ~ResolveOrPanic(p).panic
    /\ AttachmentBuilds(ResolveOrPanic(p).str)
AllBefore(k, P(_)) == \A j \in 1..(k - 1) : P(InputPath(j))
IndicesUpTo(log, k) == \A n \in 1..Len(log) : log[n] <= k
EndedAt(stage) == pc = "exited" /\ exitAt = stage

\* C1: a VM is constructed only after the validator accepted the very
\* configuration the VM is built from, the validator having been called
\* exactly once; when the validator rejects, the process ends with no VM, no
\* serial queue and no dispatched start.
C1_ValidationGatesVm ==
    /\ validateCalls <= 1
    /\ vm.made => /\ validateCalls = 1
                  /\ validated.built
                  /\ vm.conf = validated
    /\ (queueCreated \/ dispatched) => validated.built
    /\ (validateCalls = 1 /\ ~validated.built) =>
          /\ EndedAt("validate")
          /\ exitKind = "return"
          /\ ~vm.made /\ ~queueCreated /\ ~dispatched /\ qpc = "idle"

C1_Witness ==
    /\ vm.made
    /\ vm.conf = validated
    /\ validateCalls = 1
    /\ Len(vm.conf.storage_devices) = 2

\* C2 (as claimed): on an unsupported host every run that got a configuration
\* argument, loadable or not, ends having printed exactly "not supported" and
\* with no device, no validation and no VM.
C2_Original ==
    (~hostSupported /\ pc = "exited" /\ exitAt # "from_args") =>
        /\ out = << <<"println", "not supported">> >>
        /\ exitKind = "return"
        /\ made = {} /\ validateCalls = 0 /\ ~vm.made

\* C2 (amended): on an unsupported host no run ever assembles a device,
\* validates or constructs a VM; a run whose configuration loaded ends having
\* printed exactly "not supported", while a run whose configuration cannot be
\* loaded panics with "could not read config" before the capability check.
C2_UnsupportedHost ==
    ~hostSupported =>
        /\ made = {} /\ bootLoader = NoBootLoader /\ ~BuilderRan
        /\ tcgetCalls = 0 /\ tcsetCalls = 0 /\ conf = NoConf
        /\ validateCalls = 0 /\ ~queueCreated /\ ~vm.made /\ ~dispatched
        /\ (pc = "exited" /\ Loaded) =>
              /\ exitAt = "supported" /\ exitKind = "return"
              /\ out = << <<"println", "not supported">> >>
        /\ (pc = "exited" /\ ~Loaded /\ exitAt # "from_args") =>
              /\ exitAt = "load_config" /\ exitKind = "panic"
              /\ out = << <<"panic", "could not read config">> >>

C2_Witness ==
    /\ ~hostSupported
    /\ EndedAt("supported")
    /\ Loaded
    /\ NumDisks > 0
    /\ out = << <<"println", "not supported">> >>

\* C3: when every declared disk is usable, the builder returns Ok, and the
\* storage device list handed to the configuration builder has exactly
\* Len(boot.disks) + Len(additional_disks) devices, device i being the
\* attachment of the resolved i-th path of boot.disks followed by
\* additional_disks.
C3_StorageDevicesInDeclaredOrder ==
    /\ (BuilderRan /\ \A i \in 1..NumDisks : Usable(InputPath(i))) =>
          blockResult.tag = "Ok"
    /\ conf.built =>
          /\ Len(conf.storage_devices) = NumDisks
          /\ \A i \in 1..NumDisks :
                /\ Usable(InputPath(i))
                /\ conf.storage_devices[i].attachment = canonicalize(InputPath(i)).path
                /\ conf.storage_devices[i].read_only = FALSE

C3_Witness ==
    /\ conf.built
    /\ config.disks = <<"disk1.img", "link0">>
    /\ config.additional_disks = <<"disk0.img">>
    /\ Len(conf.storage_devices) = 3

\* C4: when the first path that is not usable is one whose attachment fails
\* to build (index k), build_block_devices returns Err carrying that path's
\* error, nothing beyond index k was canonicalized or attached, no device
\* list is returned, and main has returned after dumping the error, with no
\* configuration assembled, no validation and no VM.
C4_FirstAttachFailureShortCircuits ==
    BuilderRan =>
        \A k \in 1..NumDisks :
            (AllBefore(k, Usable) /\ AttachFails(InputPath(k))) =>
                /\ blockResult.tag = "Err"
                /\ blockResult.at = k
                /\ blockResult.err = canonicalize(InputPath(k)).path
                /\ IndicesUpTo(blockResult.canonicalized, k)
                /\ IndicesUpTo(blockResult.attached, k)
                /\ blockResult.value = <<>>
                /\ EndedAt("block_devices") /\ exitKind = "return"
                /\ out[Len(out)] = <<"dump", blockResult.err>>
                /\ conf = NoConf /\ "console" \notin made /\ tcsetCalls = 0
                /\ validateCalls = 0 /\ ~queueCreated /\ ~vm.made

C4_Witness ==
    /\ BuilderRan
    /\ blockResult.tag = "Err"
    /\ blockResult.at = 2
    /\ NumDisks = 3
    /\ blockResult.constructed = 1
    /\ EndedAt("block_devices")

\* C5 (as claimed): for any disk path of the input list that does not
\* resolve, the builder returns an Err value for that path, has constructed no
\* device at or beyond it, and no device list escapes.
C5_Original ==
    BuilderRan =>
        \A i \in 1..NumDisks :
            ~Resolves(InputPath(i)) =>
                /\ blockResult.tag = "Err"
                /\ blockResult.at = i
                /\ blockResult.constructed < i
                /\ blockResult.value = <<>>

\* C5 (amended): for any disk path of the input list that does not resolve,
\* the builder never returns Ok: it has constructed no device at or beyond
\* that path, canonicalized nothing beyond it, no device list escapes and the
\* process has ended; and when every earlier path is usable the builder does
\* not return at all: it panics at that path (no Err value).
C5_UnresolvedDiskAbortsBuilder ==
    BuilderRan =>
        \A i \in 1..NumDisks :
            ~Resolves(InputPath(i)) =>
                /\ blockResult.tag \in {"panic", "Err"}
                /\ blockResult.constructed < i
                /\ IndicesUpTo(blockResult.canonicalized, i)
                /\ blockResult.value = <<>>
                /\ conf = NoConf
                /\ EndedAt("block_devices")
                /\ AllBefore(i, Usable) =>
                      /\ blockResult.tag = "panic"
                      /\ blockResult.at = i
                      /\ exitKind = "panic"

C5_Witness ==
    /\ BuilderRan
    /\ NumDisks = 3
    /\ InputPath(2) = "missing"
    /\ blockResult.tag = "panic"
    /\ blockResult.at = 2
    /\ blockResult.constructed = 1

\* C6 (as claimed): when the kernel or initrd path cannot be resolved, the
\* process aborts with no device descriptor of any kind constructed.
C6_Original ==
    EndedAt("boot_loader") => made = {}

\* C6 (amended): when the kernel or initrd path cannot be resolved, startup
\* aborts (a panic in build_boot_loader) before the storage builder and the
\* console adapter run: no storage or console descriptor exists and the
\* terminal is untouched, while the entropy, memory-balloon and network
\* descriptors have already been constructed.
C6_BootLoaderAbort ==
    /\ (Loaded /\ hostSupported
          /\ pc \notin {"supported", "entropy", "memory_balloon", "network", "boot_loader"}
          /\ (ResolveOrPanic(config.kernel).panic \/ ResolveOrPanic(config.initrd).panic))
       => EndedAt("boot_loader")
    /\ EndedAt("boot_loader") =>
          /\ exitKind = "panic"
          /\ ResolveOrPanic(config.kernel).panic \/ ResolveOrPanic(config.initrd).panic
          /\ made = {"entropy", "memory_balloon", "network"}
          /\ bootLoader = NoBootLoader /\ ~BuilderRan
          /\ tcgetCalls = 0 /\ tcsetCalls = 0 /\ term = termOrig
          /\ conf = NoConf /\ validateCalls = 0 /\ ~vm.made

C6_Witness ==
    /\ EndedAt("boot_loader")
    /\ Resolves(config.kernel)
    /\ ~Resolves(config.initrd)
    /\ made = {"entropy", "memory_balloon", "network"}

\* C7 (as claimed): when tcgetattr fails, nothing is applied to the terminal,
\* no console device is constructed, and the run reaches neither validation
\* nor the VM start.
C7_Original ==
    tcgetFailed =>
        /\ tcsetCalls = 0 /\ term = termOrig
        /\ "console" \notin made
        /\ validateCalls = 0 /\ ~dispatched

\* C8: once the start request is dispatched the main thread is in the sleep
\* loop and the process has not exited, whatever the completion callback
\* does.
C8_MainIdlesForever ==
    /\ dispatched => (pc = "sleep" /\ exitKind = "none" /\ exitAt = "none")
    /\ cb \in {"ok", "err", "pending"} => (dispatched /\ pc = "sleep")

C8_Witness ==
    /\ dispatched
    /\ pc = "sleep"
    /\ sleeps >= 2
    /\ cb = "err"
    /\ out[Len(out)] = <<"dump", "start">>

\* C9: the write lock on the VM handle is acquired at most once and only by
\* the start block; start_with_completion_handler is called at most once and
\* only while the start block holds the lock; once the block has run both
\* happened exactly once; nobody else ever touches the handle.
C9_HandleAccessedOnlyByStartBlock ==
    /\ lockAcquires <= 1
    /\ Len(startLog) <= 1
    /\ \A n \in 1..Len(startLog) : startLog[n] = "start_block"
    /\ lockHolder \in {"none", "start_block"}
    /\ handleAccess \subseteq {"start_block"}
    /\ lockAcquires > 0 => (dispatched /\ vm.made)
    /\ qpc = "started" => lockHolder = "start_block"
    /\ qpc = "done" => /\ lockAcquires = 1
                       /\ Len(startLog) = 1
                       /\ lockHolder = "none"
    /\ cb # "none" => Len(startLog) = 1

C9_Witness ==
    /\ qpc = "done"
    /\ cb = "ok"
    /\ sleeps >= 1
    /\ lockAcquires = 1
    /\ startLog = <<"start_block">>

\* C10 (as claimed): the terminal is written at most once; a run that ends at
\* config loading, the capability check, the boot loader or the storage
\* builder leaves it as it was; a run that ends at validation leaves it with
\* ICANON, ECHO and ICRNL cleared (and everything else as it was).
C10_Original ==
    /\ tcsetCalls <= 1
    /\ (pc = "exited"
          /\ exitAt \in {"from_args", "load_config", "supported", "boot_loader",
                         "block_devices"})
       => (tcsetCalls = 0 /\ term = termOrig)
    /\ EndedAt("validate") => term = ClearFlags(termOrig)

====
